---- MODULE Spec2Model ----
(***************************************************************************)
(* Model of tools/gen_icon.py: the icon pipeline                           *)
(*   render_icon -> write_png -> write_iconset -> build_icns -> print      *)
(* run by main().  An image is modelled by its pixel dimensions, by the    *)
(* geometry render_icon drew on the working canvas, and by the sizes it    *)
(* was resampled from.  The filesystem is the three outputs under          *)
(* <assets-dir>/: oxidate.png, oxidate.iconset/ and oxidate.icns.          *)
(***************************************************************************)
EXTENDS Integers, Sequences, FiniteSets

VARIABLES
    pc,            \* position of main(): the statement about to run
    run,           \* number of the current invocation of the program
    args,          \* argparse result: [base_size, supersample]
    call,          \* <<>> or <<[base_size, supersample]>>: arguments main passed to render_icon
    canvas,        \* <<>> or <<ss>>: side of the working canvas render_icon created
    base,          \* <<>> or <<image>>: the value render_icon returned
    idx,           \* write_iconset: number of entries of sizes already handled
    png,           \* <<>> or <<file>>: <assets-dir>/oxidate.png
    iconset_kind,  \* what <assets-dir>/oxidate.iconset is: "absent", "dir" or "file"
    iconset,       \* the directory's content: file name -> file
    icns,          \* <<>> or <<file>>: <assets-dir>/oxidate.icns
    out,           \* lines printed on stdout by this invocation
    err,           \* "none" or the exception that ended this invocation
    started,       \* stages this invocation has entered, in order
    completed,     \* stages this invocation has returned from, in order
    renders,       \* how many times this invocation called render_icon
    removed,       \* names of the files this invocation's rmtree deleted
    written        \* every oxidate.png written so far: [run, base_size, supersample, img]

vars == <<pc, run, args, call, canvas, base, idx, png, iconset_kind, iconset,
          icns, out, err, started, completed, renders, removed, written>>

----------------------------------------------------------------------------
(* Bounds of the model *)

\* --base-size is drawn from -1 .. MaxSmallBase and the two named sizes below
MaxSmallBase == 1
\* --supersample is drawn from -1 .. MaxSupersampleArg and the default
MaxSupersampleArg == 1
\* invocations of the program in SpecRuns
MaxRuns == 2
\* render_icon alone (SpecRender): base_size in 1 .. MaxRenderBase
MaxRenderBase == 128
\* render_icon alone (SpecRender): supersample in 1 .. MaxRenderSupersample
MaxRenderSupersample == 3

(* Program constants *)
DefaultBaseSize == 1024
DefaultSupersample == 4

BG == <<20, 24, 30, 255>>
INNER == <<34, 40, 52, 255>>

BaseSizeArgs == ((0 - 1) .. MaxSmallBase) \cup {64, DefaultBaseSize}
SupersampleArgs == ((0 - 1) .. MaxSupersampleArg) \cup {DefaultSupersample}

----------------------------------------------------------------------------
(* Pure functions *)

Max(a, b) == IF a >= b THEN a ELSE b

\* Working sides below 8200 at which the double product 0.41 * ss is one ulp
\* short of the exact integer 41 * ss / 100, so that int() truncates to one less.
\* (0.295, 0.01, 0.05, 0.23 and 0.21 have no such side below 8200.)
ShortOuter == {300, 600, 1200, 2400, 4700, 4800, 4900}

\* int(0.41 * ss)
r_outer(ss) == ((41 * ss) \div 100) - (IF ss \in ShortOuter THEN 1 ELSE 0)

\* int(0.295 * ss)
r_inner(ss) == (295 * ss) \div 1000

\* inner_r with the margin added instead of subtracted
inner_r_grown(ss) == r_inner(ss) + (ss \div 100)

\* r_inner - int(0.01 * ss)
inner_r(ss) == r_inner(ss) - (ss \div 100)

\* int(0.05 * ss)
hd_r(ss) == (5 * ss) \div 100

\* What render_icon draws on the ss x ss canvas: the ring (outer and inner
\* radius, blur), the gradient's two colours, the inner disc, the highlight dot
\* (radius, offset from the centre, blur).  Blur radii are kept as exact
\* rationals: ring_blur is in tenths, dot_blur in thousandths of a pixel.
Scene(ss, supersample) ==
    [ ss        |-> ss,
      bg        |-> BG,
      r_outer   |-> r_outer(ss),
      r_inner   |-> r_inner(ss),
      ring_blur |-> 12 * supersample,
      top       |-> <<245, 150, 45, 255>>,
      bottom    |-> <<205, 120, 35, 255>>,
      inner_r   |-> inner_r(ss),
      inner     |-> INNER,
      hd_r      |-> hd_r(ss),
      dot_dx    |-> (23 * ss) \div 100,
      dot_dy    |-> (21 * ss) \div 100,
      dot_blur  |-> 12 * ss ]

\* resize that never enlarges: a target above the source size keeps the source
resize_no_upscale(img, px) ==
    IF img.w <= px /\ img.h <= px
    THEN img
    ELSE [img EXCEPT !.w = px, !.h = px, !.resampled = Append(@, <<img.w, img.h>>)]

\* Image.resize((px, px), LANCZOS): an image already of that size is returned
\* as a copy; otherwise the result has the new size and is a resampling of
\* the source, whose size it remembers.
resize(img, px) ==
    IF img.w = px /\ img.h = px
    THEN img
    ELSE [img EXCEPT !.w = px, !.h = px, !.resampled = Append(@, <<img.w, img.h>>)]

\* The canvas render_icon has drawn, before the final downscale.
Drawn(base_size, supersample) ==
    LET ss == base_size * supersample
    IN  [w |-> ss, h |-> ss, scene |-> Scene(ss, supersample), resampled |-> <<>>]

\* render_icon without the final downscale
render_icon_no_downscale(base_size, supersample) ==
    Drawn(base_size, supersample)

\* render_icon with the highlight dot displaced by a per-invocation seed
render_icon_seeded(base_size, supersample) ==
    LET img == Drawn(base_size, supersample)
    IN  resize([img EXCEPT !.scene.dot_dx = @ + run], base_size)

render_icon(base_size, supersample) ==
    resize(Drawn(base_size, supersample), base_size)

\* the table with the last entry not doubled
sizes_last_not_doubled ==
    << <<"icon_16x16.png", 16>>,
       <<"icon_16x16@2x.png", 32>>,
       <<"icon_32x32.png", 32>>,
       <<"icon_32x32@2x.png", 64>>,
       <<"icon_128x128.png", 128>>,
       <<"icon_128x128@2x.png", 256>>,
       <<"icon_256x256.png", 256>>,
       <<"icon_256x256@2x.png", 512>>,
       <<"icon_512x512.png", 512>>,
       <<"icon_512x512@2x.png", 512>> >>

\* write_iconset's table
sizes ==
    << <<"icon_16x16.png", 16>>,
       <<"icon_16x16@2x.png", 32>>,
       <<"icon_32x32.png", 32>>,
       <<"icon_32x32@2x.png", 64>>,
       <<"icon_128x128.png", 128>>,
       <<"icon_128x128@2x.png", 256>>,
       <<"icon_256x256.png", 256>>,
       <<"icon_256x256@2x.png", 512>>,
       <<"icon_512x512.png", 512>>,
       <<"icon_512x512@2x.png", 1024>> >>

\* A file holding an image, and a file left empty by a failed save.  The run
\* that wrote a file is kept with it.
ImageFile(img, r) == [data |-> <<img>>, run |-> r]
EmptyFile(r) == [data |-> <<>>, run |-> r]

\* f with name bound to file (a new name extends the directory)
Put(f, name, file) ==
    [n \in DOMAIN f \cup {name} |-> IF n = name THEN file ELSE f[n]]

EmptyDir == [n \in {} |-> EmptyFile(0)]

----------------------------------------------------------------------------
(* The state the program starts in *)

FileNames == {sizes[k][1] : k \in 1 .. Len(sizes)}

\* An image some earlier version of the tool rendered
PriorImage == render_icon(32, 2)

\* What oxidate.iconset may be before the program runs: nothing, a regular
\* file, an empty directory, a directory of foreign files, a directory holding
\* a table name with other content, and a complete iconset made from another
\* base image, with a stray file beside it.
PriorIconsets ==
    { <<"absent", EmptyDir>>,
      <<"file", EmptyDir>>,
      <<"dir", EmptyDir>>,
      <<"dir", Put(Put(EmptyDir, ".DS_Store", EmptyFile(0)),
                   "icon_64x64.png", ImageFile(resize(PriorImage, 64), 0))>>,
      <<"dir", Put(EmptyDir, "icon_16x16.png", ImageFile(resize(PriorImage, 48), 0))>>,
      <<"dir", Put([n \in FileNames |-> ImageFile(PriorImage, 0)],
                   "icon_1024x1024.png", ImageFile(resize(PriorImage, 1024), 0))>> }

NoArgs == [base_size |-> DefaultBaseSize, supersample |-> DefaultSupersample]

Init ==
    /\ pc = "parse_args"
    /\ run = 1
    /\ args = NoArgs
    /\ call = <<>>
    /\ canvas = <<>>
    /\ base = <<>>
    /\ idx = 0
    /\ png \in {<<>>, <<ImageFile(PriorImage, 0)>>}
    /\ \E prior \in PriorIconsets :
          /\ iconset_kind = prior[1]
          /\ iconset = prior[2]
    /\ icns \in {<<>>, <<[pack |-> EmptyDir, run |-> 0]>>}
    /\ out = <<>>
    /\ err = "none"
    /\ started = <<>>
    /\ completed = <<>>
    /\ renders = 0
    /\ removed = {}
    /\ written = {}

----------------------------------------------------------------------------
(* main() *)

\* the exception propagates out of main: the interpreter exits non-zero
Raise(e) ==
    /\ pc' = "failed"
    /\ err' = e

ExitCode == IF pc = "done" THEN 0 ELSE IF pc = "failed" THEN 1 ELSE 0 - 1

\* p.parse_args(): both options are type=int
parse_args ==
    /\ pc = "parse_args"
    /\ \E b \in BaseSizeArgs, s \in SupersampleArgs :
          args' = [base_size |-> b, supersample |-> s]
    /\ pc' = "render_icon"
    /\ UNCHANGED <<run, call, canvas, base, idx, png, iconset_kind, iconset,
                   icns, out, err, started, completed, renders, written, removed>>

\* the call without the floor on supersample
RenderCall_unclamped(a) ==
    [base_size |-> a.base_size, supersample |-> a.supersample]

\* the arguments of main's call render_icon(base_size=..., supersample=max(1, ...))
RenderCall(a) ==
    [base_size |-> a.base_size, supersample |-> Max(1, a.supersample)]

\* base = render_icon(...).  Image.new refuses a negative size before any
\* canvas exists.  A canvas of side 0 is created; whether the filters and the
\* final resize accept it depends on the imaging library, so both outcomes
\* are allowed.
main_render_icon ==
    /\ pc = "render_icon"
    /\ LET c == RenderCall(args)
           ss == c.base_size * c.supersample
       IN  /\ call' = <<c>>
           /\ started' = Append(started, "render_icon")
           /\ renders' = renders + 1
           /\ \/ /\ ss < 0
                 /\ Raise("ValueError")
                 /\ UNCHANGED <<canvas, base, completed>>
              \/ /\ ss = 0
                 /\ canvas' = <<ss>>
                 /\ Raise("ValueError")
                 /\ UNCHANGED <<base, completed>>
              \/ /\ ss >= 0
                 /\ canvas' = <<Drawn(c.base_size, c.supersample).w>>
                 /\ base' = <<render_icon(c.base_size, c.supersample)>>
                 /\ completed' = Append(completed, "render_icon")
                 /\ pc' = "write_png"
                 /\ UNCHANGED err
    /\ UNCHANGED <<run, args, idx, png, iconset_kind, iconset, icns, out, written, removed>>

\* What img.save(path) leaves in the file
Saved(img) == ImageFile(img, run)

\* write_png that also reports the file it wrote
write_png_reporting ==
    /\ pc = "write_png"
    /\ started' = Append(started, "write_png")
    /\ png' = <<Saved(base[1])>>
    /\ written' = written \cup
           {[run |-> run, base_size |-> call[1].base_size,
             supersample |-> call[1].supersample, img |-> base[1]]}
    /\ completed' = Append(completed, "write_png")
    /\ out' = Append(out, "wrote oxidate.png")
    /\ pc' = "write_iconset"
    /\ UNCHANGED <<run, args, call, canvas, base, idx, iconset_kind, iconset,
                   icns, err, renders, removed>>

\* write_png(base, base_png_path).  Whether the PNG encoder accepts an empty
\* image depends on the imaging library; when it refuses, the file it opened
\* stays empty.
write_png ==
    /\ pc = "write_png"
    /\ started' = Append(started, "write_png")
    /\ \/ /\ png' = <<Saved(base[1])>>
          /\ written' = written \cup
                 {[run |-> run, base_size |-> call[1].base_size,
                   supersample |-> call[1].supersample, img |-> png'[1].data[1]]}
          /\ completed' = Append(completed, "write_png")
          /\ pc' = "write_iconset"
          /\ UNCHANGED err
       \/ /\ base[1].w = 0
          /\ png' = <<EmptyFile(run)>>
          /\ Raise("ValueError")
          /\ UNCHANGED <<written, completed>>
    /\ UNCHANGED <<run, args, call, canvas, base, idx, iconset_kind, iconset,
                   icns, out, renders, removed>>

\* write_iconset without the rmtree: an existing directory is kept as it is
write_iconset_keep_dir ==
    /\ pc = "write_iconset"
    /\ started' = Append(started, "write_iconset")
    /\ pc' = "iconset_mkdir"
    /\ UNCHANGED <<run, args, call, canvas, base, idx, png, iconset_kind,
                   iconset, icns, out, err, completed, renders, removed, written>>

\* write_iconset, lines 101-102: if iconset_dir.exists(): shutil.rmtree(iconset_dir).
\* rmtree refuses a path that is not a directory.
write_iconset_rmtree ==
    /\ pc = "write_iconset"
    /\ started' = Append(started, "write_iconset")
    /\ \/ /\ iconset_kind = "absent"
          /\ pc' = "iconset_mkdir"
          /\ UNCHANGED <<iconset_kind, iconset, removed, err>>
       \/ /\ iconset_kind = "dir"
          /\ iconset_kind' = "absent"
          /\ iconset' = EmptyDir
          /\ removed' = DOMAIN iconset
          /\ pc' = "iconset_mkdir"
          /\ UNCHANGED err
       \/ /\ iconset_kind = "file"
          /\ Raise("NotADirectoryError")
          /\ UNCHANGED <<iconset_kind, iconset, removed>>
    /\ UNCHANGED <<run, args, call, canvas, base, idx, png, icns, out,
                   completed, renders, written>>

\* write_iconset, line 103: iconset_dir.mkdir(parents=True, exist_ok=True)
write_iconset_mkdir ==
    /\ pc = "iconset_mkdir"
    /\ iconset_kind' = "dir"
    /\ idx' = 0
    /\ pc' = "iconset_save"
    /\ UNCHANGED <<run, args, call, canvas, base, png, iconset, icns, out, err,
                   started, completed, renders, written, removed>>

\* the loop shrinking the base image in place (thumbnail) instead of resizing a copy
write_iconset_save_in_place ==
    /\ pc = "iconset_save"
    /\ idx < Len(sizes)
    /\ base' = <<resize(base[1], sizes[idx + 1][2])>>
    /\ iconset' = Put(iconset, sizes[idx + 1][1], Saved(base'[1]))
    /\ idx' = idx + 1
    /\ IF idx + 1 = Len(sizes)
       THEN /\ pc' = "build_icns"
            /\ completed' = Append(completed, "write_iconset")
       ELSE UNCHANGED <<pc, completed>>
    /\ UNCHANGED <<run, args, call, canvas, png, iconset_kind, icns, out, err,
                   started, renders, removed, written>>

\* write_iconset, lines 105-108: one iteration of the loop over sizes; the
\* function returns after the last one.  Whether an empty base image can be
\* resampled depends on the imaging library.
write_iconset_save ==
    /\ pc = "iconset_save"
    /\ idx < Len(sizes)
    /\ LET name == sizes[idx + 1][1]
           px == sizes[idx + 1][2]
           resized == resize(base[1], px)
       IN  \/ /\ iconset' = Put(iconset, name, Saved(resized))
              /\ idx' = idx + 1
              /\ IF idx + 1 = Len(sizes)
                 THEN /\ pc' = "build_icns"
                      /\ completed' = Append(completed, "write_iconset")
                 ELSE UNCHANGED <<pc, completed>>
              /\ UNCHANGED err
           \/ /\ base[1].w = 0
              /\ Raise("ValueError")
              /\ UNCHANGED <<iconset, idx, completed>>
    /\ UNCHANGED <<run, args, call, canvas, base, png, iconset_kind, icns, out,
                   started, renders, written, removed>>

\* build_icns that removes the staging directory when the command fails
build_icns_cleanup ==
    /\ pc = "build_icns"
    /\ started' = Append(started, "build_icns")
    /\ \/ /\ icns' = <<[pack |-> iconset, run |-> run]>>
          /\ completed' = Append(completed, "build_icns")
          /\ pc' = "print_png"
          /\ UNCHANGED <<err, iconset_kind, iconset>>
       \/ /\ \E e \in {"FileNotFoundError", "CalledProcessError"} : Raise(e)
          /\ iconset_kind' = "absent"
          /\ iconset' = EmptyDir
          /\ UNCHANGED <<icns, completed>>
    /\ UNCHANGED <<run, args, call, canvas, base, idx, png, out, renders,
                   removed, written>>

\* build_icns(iconset_dir, icns_path): the parent directory exists already;
\* subprocess.run(["iconutil", ...], check=True) writes the container, or
\* raises FileNotFoundError (no such utility) or CalledProcessError (non-zero
\* exit).
build_icns ==
    /\ pc = "build_icns"
    /\ started' = Append(started, "build_icns")
    /\ \/ /\ icns' = <<[pack |-> iconset, run |-> run]>>
          /\ completed' = Append(completed, "build_icns")
          /\ pc' = "print_png"
          /\ UNCHANGED err
       \/ /\ Raise("FileNotFoundError")
          /\ UNCHANGED <<icns, completed>>
       \/ /\ Raise("CalledProcessError")
          /\ UNCHANGED <<icns, completed>>
    /\ UNCHANGED <<run, args, call, canvas, base, idx, png, iconset_kind,
                   iconset, out, renders, written, removed>>

\* print(f"wrote {base_png_path}")
print_png ==
    /\ pc = "print_png"
    /\ out' = Append(out, "wrote oxidate.png")
    /\ pc' = "print_icns"
    /\ UNCHANGED <<run, args, call, canvas, base, idx, png, iconset_kind,
                   iconset, icns, err, started, completed, renders, written, removed>>

\* print(f"wrote {icns_path}"), then main returns
print_icns ==
    /\ pc = "print_icns"
    /\ out' = Append(out, "wrote oxidate.icns")
    /\ pc' = "done"
    /\ UNCHANGED <<run, args, call, canvas, base, idx, png, iconset_kind,
                   iconset, icns, err, started, completed, renders, written, removed>>

----------------------------------------------------------------------------
(* Filesystem errors: any directory creation, removal or file write may     *)
(* raise OSError, which nothing catches.  A failed save may have created    *)
(* the file already.                                                        *)

write_png_oserror ==
    /\ pc = "write_png"
    /\ started' = Append(started, "write_png")
    /\ png' \in {png, <<EmptyFile(run)>>}
    /\ Raise("OSError")
    /\ UNCHANGED <<run, args, call, canvas, base, idx, iconset_kind, iconset,
                   icns, out, completed, renders, written, removed>>

write_iconset_rmtree_oserror ==
    /\ pc = "write_iconset"
    /\ iconset_kind = "dir"
    /\ started' = Append(started, "write_iconset")
    /\ Raise("OSError")
    /\ UNCHANGED <<run, args, call, canvas, base, idx, png, iconset_kind,
                   iconset, icns, out, completed, renders, written, removed>>

write_iconset_mkdir_oserror ==
    /\ pc = "iconset_mkdir"
    /\ Raise("OSError")
    /\ UNCHANGED <<run, args, call, canvas, base, idx, png, iconset_kind,
                   iconset, icns, out, started, completed, renders, written, removed>>

write_iconset_save_oserror ==
    /\ pc = "iconset_save"
    /\ idx < Len(sizes)
    /\ iconset' \in {iconset, Put(iconset, sizes[idx + 1][1], EmptyFile(run))}
    /\ Raise("OSError")
    /\ UNCHANGED <<run, args, call, canvas, base, idx, png, iconset_kind,
                   icns, out, started, completed, renders, written, removed>>

----------------------------------------------------------------------------
(* The program is invoked again, on the files the earlier invocation left *)

NewRun ==
    /\ pc \in {"done", "failed"}
    /\ run < MaxRuns
    /\ run' = run + 1
    /\ pc' = "parse_args"
    /\ args' = NoArgs
    /\ call' = <<>>
    /\ canvas' = <<>>
    /\ base' = <<>>
    /\ idx' = 0
    /\ out' = <<>>
    /\ err' = "none"
    /\ started' = <<>>
    /\ completed' = <<>>
    /\ renders' = 0
    /\ removed' = {}
    /\ UNCHANGED <<png, iconset_kind, iconset, icns, written>>

----------------------------------------------------------------------------
(* Specifications *)

Steps ==
    \/ parse_args
    \/ main_render_icon
    \/ write_png
    \/ write_iconset_rmtree
    \/ write_iconset_mkdir
    \/ write_iconset_save
    \/ build_icns
    \/ print_png
    \/ print_icns

Faults ==
    \/ write_png_oserror
    \/ write_iconset_rmtree_oserror
    \/ write_iconset_mkdir_oserror
    \/ write_iconset_save_oserror

\* One invocation, from any prior content of the output directory, with
\* filesystem errors
Next == Steps \/ Faults

Spec == Init /\ [][Next]_vars

\* Repeated invocations on a filesystem that raises no error
NextRuns == Steps \/ NewRun

\* The first invocation finds no oxidate.png and no oxidate.icns; what later
\* ones find is what the earlier ones left.
InitRuns == Init /\ png = <<>> /\ icns = <<>>

SpecRuns == InitRuns /\ [][NextRuns]_vars

----------------------------------------------------------------------------
(* render_icon alone, on every base_size and supersample up to the bounds *)

InitRender ==
    /\ pc = "render_only"
    /\ run = 1
    /\ args = NoArgs
    /\ \E b \in 1 .. MaxRenderBase, s \in 1 .. MaxRenderSupersample :
          call = <<[base_size |-> b, supersample |-> s]>>
    /\ canvas = <<>>
    /\ base = <<>>
    /\ idx = 0
    /\ png = <<>>
    /\ iconset_kind = "absent"
    /\ iconset = EmptyDir
    /\ icns = <<>>
    /\ out = <<>>
    /\ err = "none"
    /\ started = <<>>
    /\ completed = <<>>
    /\ renders = 0
    /\ removed = {}
    /\ written = {}

render_only ==
    /\ pc = "render_only"
    /\ canvas' = <<Drawn(call[1].base_size, call[1].supersample).w>>
    /\ base' = <<render_icon(call[1].base_size, call[1].supersample)>>
    /\ renders' = renders + 1
    /\ pc' = "rendered"
    /\ UNCHANGED <<run, args, call, idx, png, iconset_kind, iconset, icns, out,
                   err, started, completed, removed, written>>

SpecRender == InitRender /\ [][render_only]_vars

----------------------------------------------------------------------------
(* Properties *)

Range(q) == {q[k] : k \in 1 .. Len(q)}

IsPrefix(p, q) == Len(p) <= Len(q) /\ \A k \in 1 .. Len(p) : p[k] = q[k]

Stages == <<"render_icon", "write_png", "write_iconset", "build_icns">>

\* The iconset as documented: file name and pixel size
Documented ==
    { <<"icon_16x16.png", 16>>, <<"icon_16x16@2x.png", 32>>,
      <<"icon_32x32.png", 32>>, <<"icon_32x32@2x.png", 64>>,
      <<"icon_128x128.png", 128>>, <<"icon_128x128@2x.png", 256>>,
      <<"icon_256x256.png", 256>>, <<"icon_256x256@2x.png", 512>>,
      <<"icon_512x512.png", 512>>, <<"icon_512x512@2x.png", 1024>> }

DocumentedNames == {d[1] : d \in Documented}

\* write_iconset has returned normally in this invocation
Exported == "write_iconset" \in Range(completed)

\* C1: whenever write_iconset has returned normally, the iconset directory
\* holds exactly the ten documented file names, each a square image of its
\* documented pixel size, whatever the base image size and whatever the
\* directory held before.
C1_IconsetExact ==
    Exported =>
        /\ iconset_kind = "dir"
        /\ DOMAIN iconset = DocumentedNames
        /\ \A d \in Documented :
              /\ Len(iconset[d[1]].data) = 1
              /\ iconset[d[1]].data[1].w = d[2]
              /\ iconset[d[1]].data[1].h = d[2]

\* C1's case: write_iconset returned on a base image that is not 1024 pixels,
\* in a directory that held other files before
C1_Witness ==
    /\ Exported
    /\ base[1].w = 64
    /\ removed # {}
    /\ removed # DocumentedNames

\* C2: no file of the directory's previous content survives write_iconset.
\* From the first iteration of the loop on, the directory holds only the
\* files this call has written so far (the directory was emptied before the
\* first file was written), and after the call every file in it was written
\* by this call.
C2_NoStaleFile ==
    /\ pc = "iconset_save" =>
          /\ DOMAIN iconset = {sizes[k][1] : k \in 1 .. idx}
          /\ \A n \in DOMAIN iconset : iconset[n].run = run
    /\ Exported => \A n \in DOMAIN iconset : iconset[n].run = run

\* C2's case: the call returned, and the directory had held both a file
\* whose name is in the table and a file whose name is not
C2_Witness ==
    /\ Exported
    /\ removed \cap DocumentedNames # {}
    /\ removed \ DocumentedNames # {}

\* The iconset exactly as write_iconset writes it from image b in run r
Populated(b, r) ==
    [n \in DocumentedNames |->
        ImageFile(resize(b, (CHOOSE d \in Documented : d[1] = n)[2]), r)]

\* C3: when the packaging command fails (no such utility, or a non-zero
\* exit), the run ends in the fatal error state: exit code non-zero, no
\* "wrote" line printed; and oxidate.png and the fully populated iconset, as
\* the earlier stages wrote them, are still on disk.
C3_PackagingFailure ==
    err \in {"FileNotFoundError", "CalledProcessError"} =>
        /\ pc = "failed"
        /\ ExitCode # 0
        /\ out = <<>>
        /\ png = <<ImageFile(base[1], run)>>
        /\ iconset_kind = "dir"
        /\ iconset = Populated(base[1], run)

\* C3's case: the default invocation, no packaging utility
C3_Witness ==
    /\ err = "FileNotFoundError"
    /\ args = [base_size |-> 1024, supersample |-> 4]
    /\ Exported

\* C4: for base_size >= 1 and supersample >= 1, render_icon returns an image
\* of exactly base_size by base_size pixels, and the canvas it drew on has
\* side base_size * supersample.
C4_RenderSize ==
    pc = "rendered" =>
        /\ base[1].w = call[1].base_size
        /\ base[1].h = call[1].base_size
        /\ canvas = <<call[1].base_size * call[1].supersample>>

\* C4's case: a supersampled render, the canvas larger than the result
C4_Witness ==
    /\ pc = "rendered"
    /\ call[1].supersample = 3
    /\ canvas[1] > base[1].w
    /\ base[1].w = 100

\* C5: the stages start in the order render_icon, write_png, write_iconset,
\* build_icns, each only after the one before it completed; once a stage has
\* failed no later stage starts and nothing is printed; the two "wrote" lines
\* are printed in order, and only after build_icns has succeeded.
C5_StageOrder ==
    /\ IsPrefix(started, Stages)
    /\ IsPrefix(completed, started)
    /\ Len(started) <= Len(completed) + 1
    /\ err # "none" =>
          /\ pc = "failed"
          /\ Len(started) = Len(completed) + 1
          /\ out = <<>>
    /\ IsPrefix(out, <<"wrote oxidate.png", "wrote oxidate.icns">>)
    /\ out # <<>> => completed = Stages
    /\ pc = "done" => Len(out) = 2

\* C5's case: a run that went through all four stages and printed both lines
C5_Witness ==
    /\ pc = "done"
    /\ started = Stages
    /\ Len(out) = 2

\* C6: main calls render_icon with supersample max(1, value) for every value
\* of --supersample, so the renderer never sees a factor below 1 and a canvas,
\* once created, is never smaller than base_size.
C6_SupersampleFloor ==
    call # <<>> =>
        /\ call[1].base_size = args.base_size
        /\ args.supersample >= 1 => call[1].supersample = args.supersample
        /\ args.supersample < 1 => call[1].supersample = 1
        /\ call[1].supersample >= 1
        /\ canvas # <<>> => canvas[1] >= args.base_size

\* C6's case: a negative --supersample, and the render went through
C6_Witness ==
    /\ args.supersample < 0
    /\ args.base_size = 64
    /\ canvas = <<64>>
    /\ base # <<>>

Example64 ==
    /\ call = <<[base_size |-> 64, supersample |-> 1]>>
    /\ Exported

\* C8 as stated: with base_size=64 and supersample=1 the renderer output is
\* 64 by 64 and icon_512x512@2x.png is written as a 64 by 64 image.
C8_Original ==
    Example64 =>
        /\ base[1].w = 64 /\ base[1].h = 64
        /\ iconset["icon_512x512@2x.png"].data[1].w = 64
        /\ iconset["icon_512x512@2x.png"].data[1].h = 64

\* C8 amended: with base_size=64 and supersample=1 the renderer output is 64
\* by 64 and icon_512x512@2x.png is written as a 1024 by 1024 image, resampled
\* up from the 64 by 64 base.
C8_Upsampled ==
    Example64 =>
        /\ base[1].w = 64 /\ base[1].h = 64
        /\ iconset["icon_512x512@2x.png"].data[1].w = 1024
        /\ iconset["icon_512x512@2x.png"].data[1].h = 1024
        /\ iconset["icon_512x512@2x.png"].data[1].resampled = << <<64, 64>> >>

\* C8's case: the example run has exported its iconset
C8_Witness ==
    /\ Example64
    /\ pc = "done"

\* C9: the base image is produced once per run and never changed: render_icon
\* is called at most once, base stays the value it returned, oxidate.png
\* holds that value from write_png on (write_iconset leaves the file alone),
\* and every iconset file this run wrote is a resampling of that value.
C9_BaseImmutable ==
    /\ renders <= 1
    /\ pc \notin {"parse_args", "render_icon"} => renders = 1
    /\ base # <<>> =>
          /\ renders = 1
          /\ base = <<render_icon(call[1].base_size, call[1].supersample)>>
    /\ "write_png" \in Range(completed) => png = <<ImageFile(base[1], run)>>
    /\ pc \in {"iconset_save", "build_icns", "print_png", "print_icns", "done"} =>
          \A k \in 1 .. idx :
              iconset[sizes[k][1]] = ImageFile(resize(base[1], sizes[k][2]), run)

\* C9's case: in the middle of the export loop, over an oxidate.png that an
\* earlier tool run had left and this run replaced
C9_Witness ==
    /\ pc = "iconset_save"
    /\ idx = 5
    /\ renders = 1
    /\ png = <<ImageFile(base[1], run)>>
    /\ removed # {}

\* The radii render_icon has drawn with
Radii == base[1].scene

\* C10 as stated: for every working resolution the inner disc's radius is
\* strictly below the ring's inner radius, which is strictly below the ring's
\* outer radius.
C10_Original ==
    pc = "rendered" =>
        /\ Radii.inner_r < Radii.r_inner
        /\ Radii.r_inner < Radii.r_outer

\* C10 amended: for every working resolution size >= 100 the inner disc's
\* radius is strictly below the ring's inner radius, which is strictly below
\* the ring's outer radius; for a size below 100 the inner disc's radius
\* equals the ring's inner radius, which is at most the ring's outer radius
\* and equals it at the sizes 1, 2, 4 and 7 only.
C10_RadiiOrdered ==
    pc = "rendered" =>
        /\ Radii.inner_r >= 0
        /\ Radii.inner_r <= Radii.r_inner
        /\ Radii.r_inner <= Radii.r_outer
        /\ canvas[1] >= 100 =>
              /\ Radii.inner_r < Radii.r_inner
              /\ Radii.r_inner < Radii.r_outer
        /\ canvas[1] < 100 => Radii.inner_r = Radii.r_inner
        /\ (Radii.r_inner = Radii.r_outer) <=> canvas[1] \in {1, 2, 4, 7}

\* C10's case: a working resolution of 300, where 0.41 * size falls short of
\* 123 in floating point
C10_Witness ==
    /\ pc = "rendered"
    /\ canvas = <<300>>
    /\ Radii.r_outer = 122
    /\ Radii.r_inner = 88
    /\ Radii.inner_r = 85

====
